---- MODULE Spec2Model ----
(***************************************************************************)
(* Model of the merge pipeline of ytmusic_merge_gui.py: PreviewWorker.run  *)
(* with the helper functions it calls (specification Spec) and             *)
(* PublishWorker.run (specification PublishSpec).                          *)
(*                                                                         *)
(* Further specifications over the same variables:                         *)
(*   WorkerSpec      one run of either worker; WorkerLiveSpec adds weak    *)
(*                   fairness of the steps of a started run                *)
(*   HelperSpec      track_video_id applied to pairs of records            *)
(*   OverlapSpec     two PreviewWorker runs interleaved                    *)
(*   SequelSpec      PublishWorker runs one after the other against one    *)
(*                   remote library                                        *)
(*   WindowSpec      the handlers of ModernMainWindow that start the runs  *)
(*                   and take their results                                *)
(*   FormatSpec      format_duration applied to a number of seconds        *)
(*   SelectSpec      get_selected_playlists applied to a list of items     *)
(*   OrchSpec        the window handlers together with the steps of the    *)
(*                   PublishWorker run a click on the publish button       *)
(*                   starts                                                *)
(* Each group of variables is changed by the actions of its specification  *)
(* only; OrchSpec changes the window's and the publish run's.              *)
(*                                                                         *)
(* Conventions.  Python strings whose characters matter (playlist titles,  *)
(* display texts) are sequences of one-character strings.  Identifiers     *)
(* (videoId, playlistId) are TLA+ strings; the Python value None is the    *)
(* string None below, "" is the empty Python string.  A dictionary key     *)
(* that is absent reads as None (dict.get).  For the text fields that the  *)
(* code only tests for truthiness, <<>> stands for both absent and empty.  *)
(***************************************************************************)
EXTENDS Integers, Sequences, FiniteSets, TLC

\* ---------------------------------------------------------------- bounds
MaxSources == 2      \* longest sources list handed to a preview run
MaxTotal == 2        \* most tracks the remote returns to the sources of one run
MaxDestTracks == 2   \* most tracks the remote returns for the destination
MaxLib == 2          \* longest library listing the remote returns

\* ------------------------------------------------------------ Python bits
None == "<None>"
NoSeconds == 0 - 1   \* the key "lengthSeconds" is absent

Truthy(x) == x # None /\ x # ""

RECURSIVE SeqsUpTo(_, _)
SeqsUpTo(S, n) ==
  IF n <= 0 THEN { <<>> }
  ELSE LET shorter == SeqsUpTo(S, n - 1)
       IN shorter \cup { Append(q, x) : q \in shorter, x \in S }

Range(q) == { q[i] : i \in 1..Len(q) }

Upper2Lower ==
  [A |-> "a", B |-> "b", C |-> "c", D |-> "d", E |-> "e", F |-> "f", G |-> "g",
   H |-> "h", I |-> "i", J |-> "j", K |-> "k", L |-> "l", M |-> "m", N |-> "n",
   O |-> "o", P |-> "p", Q |-> "q", R |-> "r", S |-> "s", T |-> "t", U |-> "u",
   V |-> "v", W |-> "w", X |-> "x", Y |-> "y", Z |-> "z"]

\* str.lower()
Lower(s) ==
  [i \in 1..Len(s) |-> IF s[i] \in DOMAIN Upper2Lower THEN Upper2Lower[s[i]] ELSE s[i]]

Whitespace == {" ", "\t", "\n", "\r"}

\* str.strip()
RECURSIVE LStrip(_)
LStrip(s) == IF s # <<>> /\ Head(s) \in Whitespace THEN LStrip(Tail(s)) ELSE s

RECURSIVE RStrip(_)
RStrip(s) ==
  IF s # <<>> /\ s[Len(s)] \in Whitespace THEN RStrip(SubSeq(s, 1, Len(s) - 1)) ELSE s

Strip(s) == RStrip(LStrip(s))

\* str(n) for a natural number n
RECURSIVE Digits(_)
Digits(n) ==
  LET d == <<"0", "1", "2", "3", "4", "5", "6", "7", "8", "9">>
  IN IF n < 10 THEN << d[n + 1] >> ELSE Digits(n \div 10) \o << d[(n % 10) + 1] >>

\* f"{n}" in the place of f"{n:02d}"
Pad2_Plain(n) == Digits(n)

\* f"{n:02d}"
Pad2(n) == IF n < 10 THEN <<"0">> \o Digits(n) ELSE Digits(n)

\* ------------------------------------------------------- helper functions
Dash == <<"-">>

format_duration(seconds) ==
  LET s == seconds % 60
      m0 == seconds \div 60
      m == m0 % 60
      h == m0 \div 60
  IN IF h # 0 THEN Digits(h) \o <<":">> \o Pad2(m) \o <<":">> \o Pad2(s)
     ELSE Digits(m) \o <<":">> \o Pad2(s)

\* track_video_id with the two fields in the other order
track_video_id_SetFirst(track) ==
  IF Truthy(track.setVideoId) THEN track.setVideoId ELSE track.videoId

track_video_id(track) ==
  IF Truthy(track.videoId) THEN track.videoId ELSE track.setVideoId

RECURSIVE JoinNames(_)
JoinNames(names) ==
  IF names = <<>> THEN <<>>
  ELSE IF Len(names) = 1 THEN names[1]
  ELSE names[1] \o <<",", " ">> \o JoinNames(Tail(names))

\* get_artist_text raises AttributeError when an element of the artists list
\* is not a dictionary (a.get on it fails)
ArtistTextRaises(track) ==
  \E i \in 1..Len(track.artists) : ~track.artists[i].isDict

get_artist_text(track) ==
  IF track.artists # <<>>
  THEN LET named == SelectSeq(track.artists, LAMBDA a : a.name # <<>>)
       IN JoinNames([i \in 1..Len(named) |-> named[i].name])
  ELSE IF track.author # <<>> THEN track.author ELSE track.artistsText

get_duration_text(track) ==
  IF track.duration # <<>> THEN track.duration
  ELSE IF track.length # <<>> THEN track.length
  ELSE IF track.lengthText # <<>> THEN track.lengthText
  ELSE IF track.lengthSeconds # NoSeconds THEN format_duration(track.lengthSeconds)
  ELSE Dash

\* ------------------------------------------------- what the remote returns
Artist(n) == [isDict |-> TRUE, name |-> n]
NotADict == [isDict |-> FALSE, name |-> <<>>]

Rec(vid, svid, title, artists, secs) ==
  [videoId |-> vid, setVideoId |-> svid, title |-> title, artists |-> artists,
   author |-> <<>>, artistsText |-> <<>>, duration |-> <<>>, length |-> <<>>,
   lengthText |-> <<>>, lengthSeconds |-> secs]

TrackPool ==
  { Rec("v1", None, "A", << Artist(<<"x">>) >>, 65),
    Rec("", "v2", "B", <<>>, NoSeconds),
    Rec(None, None, None, << Artist(<<"x">>), Artist(<<"y">>) >>, 3725),
    Rec("v1", None, "A", << NotADict >>, NoSeconds),
    Rec(None, "", "C", << Artist(<<"x">>), NotADict >>, NoSeconds) }

LikedSongs == <<"L", "i", "k", "e", "d", " ", "S", "o", "n", "g", "s">>
LikedMusic == <<"L", "i", "k", "e", "d", " ", "M", "u", "s", "i", "c">>

Src(title, pid) == [title |-> title, playlistId |-> pid]

\* the playlists of the selection list, in the order the list shows them
SourceListing ==
  << Src(<<"R", "o", "c", "k">>, "P1"),
     Src(LikedSongs, "P2"),
     Src(LikedMusic, "LM") >>

\* the subsequences of q that are at most n long
RECURSIVE SubSeqsUpTo(_, _)
SubSeqsUpTo(q, n) ==
  IF q = <<>> \/ n <= 0 THEN { <<>> }
  ELSE SubSeqsUpTo(Tail(q), n)
         \cup { << Head(q) >> \o r : r \in SubSeqsUpTo(Tail(q), n - 1) }

DestTitles == { <<" ", "M", "i", "x">>, <<"l", "i", "k", "e", "d", " ", "m", "u", "s", "i", "c">> }

LibEntries ==
  { Src(<<"m", "i", "x", " ">>, "PD"),
    Src(<<"M", "I", "X">>, None),
    Src(LikedMusic, "LM"),
    Src(<<"R", "o", "c", "k">>, "P1") }

\* the lists of sources a caller hands over: checked playlists, in list order
SourceLists == SubSeqsUpTo(SourceListing, MaxSources)

\* every response the remote may give to one track fetch, at most n tracks long
Responses(n) == SeqsUpTo(TrackPool, n)

LibraryPool == SeqsUpTo(LibEntries, MaxLib)

\* ------------------------------------------------------------------ state
VARIABLES
  pc,                 \* position of the preview run
  sources,            \* PreviewWorker.sources
  dest_title,         \* PreviewWorker.dest_title
  include_liked,      \* PreviewWorker.include_liked
  dest_id,            \* locals of PreviewWorker.run
  dest_existing_ids,
  to_add,
  skipped,
  seen_ids,
  total_tracks,
  si,                 \* index of the source the for loop is at
  tracks,             \* the track list fetched last
  ti,                 \* index of the track the inner for loop is at
  events,             \* signals emitted so far, in order
  result,             \* payload of the done signal
  calls,              \* remote calls issued so far, in order
  \* history variables (not program state)
  stream,             \* every track counted in total_tracks, in order
  add_occ,            \* for each to_add entry, its index in stream
  skip_occ,           \* for each skipped entry, its index in stream
  fetched,            \* every successful source fetch, in order
  failed,             \* the fetches that raised
  dest_read,          \* how the read of the destination's tracks ended
  \* the publish run
  p_pc,               \* position of the publish run
  video_ids,          \* PublishWorker.video_ids
  p_dest_title,       \* PublishWorker.dest_title
  p_playlists,        \* locals of PublishWorker.run: playlists, dest_id, i
  p_dest_id,
  p_i,
  p_events,           \* signals emitted so far, in order
  p_progress,         \* values of the progress signal, in order
  p_result,           \* payload of the done signal
  p_calls,            \* remote calls issued so far, in order
  remote_created,     \* the remote: playlists created by the run
  remote_items,       \* the remote: items written to the run's destination
  \* history variable (not program state)
  preview_dest_id,    \* dest_id as the preview before this publish resolved it
  \* identifier extraction on its own
  h_pc,               \* position: "idle", "called", "returned"
  h_tracks,           \* the records track_video_id is called with
  h_ids,              \* what the calls returned, in the order of h_tracks
  \* preview runs that overlap: the locals of each PreviewWorker.run, by run
  o_pc,               \* position of each run
  o_tracks,           \* the tracks the remote returned to the run's source
  o_ti,               \* index of the track the run's loop is at
  o_dest,             \* dest_existing_ids of each run
  o_seen,             \* seen_ids of each run
  o_to_add,           \* to_add of each run
  o_skipped,          \* skipped of each run
  o_worker,           \* the run self.preview_worker refers to, 0 for none
  \* publish runs one after the other against one remote library
  m_pc,               \* position of the run that is going
  m_run,              \* number of runs started so far
  m_title,            \* PublishWorker.dest_title, the same in every run
  m_ids,              \* PublishWorker.video_ids
  m_dest_id,          \* locals of PublishWorker.run: dest_id, i
  m_i,
  m_library,          \* the remote: the playlists of the library, in listing order
  \* history variables (not program state)
  m_calls,            \* the remote calls of the run that is going, in order
  m_created,          \* for each run, the identifier it created, None for none
  m_target,           \* for each run, the dest_id it went on with, None for none
  \* the main window
  w_preview_btn,      \* preview_btn.isEnabled()
  w_publish_btn,      \* publish_btn.isEnabled()
  w_dest_input,       \* dest_input.text()
  w_preview_data,     \* self.preview_data
  w_previews,         \* the preview runs in flight
  w_publishes,        \* the publish runs in flight
  w_dialogs,          \* the preview dialogs that are open, the topmost last
  w_nprev,            \* number of preview runs started so far
  \* history variables (not program state)
  w_answers,          \* for each preview run, what the user answered to its plan
  w_started,          \* what each publish run was started with, in order
  \* duration formatting on its own
  f_pc,               \* position: "idle", "called", "returned"
  f_seconds,          \* the number format_duration is called with
  f_text,             \* what the call returned
  \* the selection of the sources
  s_pc,               \* position: "idle", "called", "returned"
  s_items,            \* the items of playlist_list: title, playlistId, check state
  s_dest,             \* dest_input.text()
  s_selected          \* what get_selected_playlists returned

preview ==
  << pc, sources, dest_title, include_liked, dest_id, dest_existing_ids, to_add,
     skipped, seen_ids, total_tracks, si, tracks, ti, events, result, calls,
     stream, add_occ, skip_occ, fetched, failed, dest_read >>

publish ==
  << p_pc, video_ids, p_dest_title, p_playlists, p_dest_id, p_i, p_events, p_progress,
     p_result, p_calls, remote_created, remote_items, preview_dest_id >>

helper == << h_pc, h_tracks, h_ids >>

\* the preview runs the user starts one after the other
Runs == {1, 2}

overlap == << o_pc, o_tracks, o_ti, o_dest, o_seen, o_to_add, o_skipped, o_worker >>

sequel ==
  << m_pc, m_run, m_title, m_ids, m_dest_id, m_i, m_library, m_calls, m_created,
     m_target >>

window ==
  << w_preview_btn, w_publish_btn, w_dest_input, w_preview_data, w_previews,
     w_publishes, w_dialogs, w_nprev, w_answers, w_started >>

format == << f_pc, f_seconds, f_text >>

selection == << s_pc, s_items, s_dest, s_selected >>

\* the variables neither worker run touches
others == << helper, overlap, sequel, window, format, selection >>

\* the variables outside each of these groups
outside_helper == << preview, publish, overlap, sequel, window, format, selection >>
outside_overlap == << preview, publish, helper, sequel, window, format, selection >>
outside_sequel == << preview, publish, helper, overlap, window, format, selection >>
outside_window == << preview, publish, helper, overlap, sequel, format, selection >>
outside_format == << preview, publish, helper, overlap, sequel, window, selection >>
outside_selection == << preview, publish, helper, overlap, sequel, window, format >>

DEFAULT_DEST ==
  << "M", "y", " ", "M", "e", "r", "g", "e", "d", " ",
     "P", "l", "a", "y", "l", "i", "s", "t" >>

\* self.preview_data before the first preview
NoData == [run |-> 0, to_add |-> <<>>, title |-> <<>>]

vars == << preview, publish, others >>

inputs == << sources, dest_title, include_liked >>
collected == << to_add, skipped, seen_ids, total_tracks >>
history == << stream, add_occ, skip_occ >>

NoResult == [present |-> FALSE, to_add |-> <<>>, skipped |-> <<>>, stats |-> <<>>]

NoPublishResult == [present |-> FALSE, ok |-> FALSE, message |-> "", url |-> ""]

Init ==
  /\ pc = "idle"
  /\ sources = <<>>
  /\ dest_title = <<>>
  /\ include_liked = FALSE
  /\ dest_id = None
  /\ dest_existing_ids = {}
  /\ to_add = <<>>
  /\ skipped = <<>>
  /\ seen_ids = {}
  /\ total_tracks = 0
  /\ si = 0
  /\ tracks = <<>>
  /\ ti = 0
  /\ events = <<>>
  /\ result = NoResult
  /\ calls = <<>>
  /\ stream = <<>>
  /\ add_occ = <<>>
  /\ skip_occ = <<>>
  /\ fetched = <<>>
  /\ failed = {}
  /\ dest_read = "none"
  /\ p_pc = "idle"
  /\ video_ids = <<>>
  /\ p_dest_title = <<>>
  /\ p_playlists = <<>>
  /\ p_dest_id = None
  /\ p_i = 0
  /\ p_events = <<>>
  /\ p_progress = <<>>
  /\ p_result = NoPublishResult
  /\ p_calls = <<>>
  /\ remote_created = <<>>
  /\ remote_items = <<>>
  /\ preview_dest_id = None
  /\ h_pc = "idle"
  /\ h_tracks = <<>>
  /\ h_ids = <<>>
  /\ o_pc = [r \in Runs |-> "idle"]
  /\ o_tracks = [r \in Runs |-> <<>>]
  /\ o_ti = [r \in Runs |-> 0]
  /\ o_dest = [r \in Runs |-> {}]
  /\ o_seen = [r \in Runs |-> {}]
  /\ o_to_add = [r \in Runs |-> <<>>]
  /\ o_skipped = [r \in Runs |-> <<>>]
  /\ o_worker = 0
  /\ m_pc = "idle"
  /\ m_run = 0
  /\ m_title = <<>>
  /\ m_ids = <<>>
  /\ m_dest_id = None
  /\ m_i = 0
  /\ m_library = <<>>
  /\ m_calls = <<>>
  /\ m_created = <<>>
  /\ m_target = <<>>
  /\ w_preview_btn = FALSE
  /\ w_publish_btn = FALSE
  /\ w_dest_input = DEFAULT_DEST
  /\ w_preview_data = NoData
  /\ w_previews = {}
  /\ w_publishes = {}
  /\ w_dialogs = <<>>
  /\ w_nprev = 0
  /\ w_answers = <<>>
  /\ w_started = <<>>
  /\ f_pc = "idle"
  /\ f_seconds = 0
  /\ f_text = <<>>
  /\ s_pc = "idle"
  /\ s_items = <<>>
  /\ s_dest = <<>>
  /\ s_selected = <<>>

Call(op, arg) == [op |-> op, arg |-> arg]

\* the call that reads the tracks of playlist pid
TracksCall(pid) ==
  IF pid = "LM" THEN Call("get_liked_songs", "") ELSE Call("get_watch_playlist", pid)

RECURSIVE TotalLen(_)
TotalLen(fs) == IF fs = <<>> THEN 0 ELSE Len(Head(fs).tracks) + TotalLen(Tail(fs))

\* tracks the remote may still return to the sources of this run
Budget == MaxTotal - TotalLen(fetched)

\* ----------------------------------------------------- PreviewWorker, start
PreviewStart ==
  /\ pc = "idle"
  /\ UNCHANGED << publish, others >>
  /\ \E srcs \in SourceLists, title \in DestTitles, liked \in BOOLEAN :
       /\ sources' = srcs
       /\ dest_title' = title
       /\ include_liked' = liked
  /\ pc' = "run"
  /\ UNCHANGED << dest_id, dest_existing_ids, collected, si, tracks, ti, events,
                  result, calls, history, fetched, failed, dest_read >>

\* the for loop of lines 494-497
TitleMatches(p, title) == Lower(Strip(p.title)) = Lower(Strip(title))

ResolveDest(playlists, title) ==
  LET hits == { i \in 1..Len(playlists) : TitleMatches(playlists[i], title) }
  IN IF hits = {} THEN None
     ELSE playlists[CHOOSE i \in hits : \A j \in hits : i <= j].playlistId

\* ListPlaylistsOk of a preview that creates the destination it did not find
ListPlaylistsOk_Create ==
  /\ pc = "run"
  /\ UNCHANGED << publish, others >>
  /\ \E playlists \in LibraryPool :
       /\ dest_id' = ResolveDest(playlists, dest_title)
       /\ pc' = IF Truthy(dest_id') THEN "dest" ELSE "collect"
       /\ calls' = IF Truthy(dest_id')
                   THEN Append(calls, Call("get_library_playlists", ""))
                   ELSE calls \o << Call("get_library_playlists", ""),
                                    Call("create_playlist", "") >>
  /\ dest_existing_ids' = {}
  /\ events' = Append(events, "status")
  /\ UNCHANGED << inputs, collected, si, tracks, ti, result, history, fetched,
                  failed, dest_read >>

ListPlaylistsOk ==
  /\ pc = "run"
  /\ UNCHANGED << publish, others >>
  /\ \E playlists \in LibraryPool :
       /\ dest_id' = ResolveDest(playlists, dest_title)
       /\ pc' = IF Truthy(dest_id') THEN "dest" ELSE "collect"
  /\ dest_existing_ids' = {}
  /\ events' = Append(events, "status")
  /\ calls' = Append(calls, Call("get_library_playlists", ""))
  /\ UNCHANGED << inputs, collected, si, tracks, ti, result, history, fetched,
                  failed, dest_read >>

ListPlaylistsFail ==
  /\ pc = "run"
  /\ UNCHANGED << publish, others >>
  /\ events' = events \o << "status", "done:False" >>
  /\ calls' = Append(calls, Call("get_library_playlists", ""))
  /\ result' = NoResult
  /\ pc' = "done"
  /\ UNCHANGED << inputs, dest_id, dest_existing_ids, collected, si, tracks, ti,
                  history, fetched, failed, dest_read >>

ReadDestOk ==
  /\ pc = "dest"
  /\ UNCHANGED << publish, others >>
  /\ \E dest_tracks \in Responses(MaxDestTracks) :
       dest_existing_ids' =
         { track_video_id(t) : t \in { u \in Range(dest_tracks) : Truthy(track_video_id(u)) } }
  /\ events' = Append(events, "status")
  /\ calls' = Append(calls, TracksCall(dest_id))
  /\ dest_read' = "ok"
  /\ pc' = "collect"
  /\ UNCHANGED << inputs, dest_id, collected, si, tracks, ti, result, history,
                  fetched, failed >>

\* ReadDestFail without the try of line 502: the exception reaches line 616
ReadDestFail_Abort ==
  /\ pc = "dest"
  /\ UNCHANGED << publish, others >>
  /\ events' = events \o << "status", "done:False" >>
  /\ calls' = Append(calls, TracksCall(dest_id))
  /\ dest_read' = "failed"
  /\ result' = NoResult
  /\ pc' = "done"
  /\ UNCHANGED << inputs, dest_id, dest_existing_ids, collected, si, tracks, ti,
                  history, fetched, failed >>

ReadDestFail ==
  /\ pc = "dest"
  /\ UNCHANGED << publish, others >>
  /\ events' = Append(events, "status")
  /\ calls' = Append(calls, TracksCall(dest_id))
  /\ dest_read' = "failed"
  /\ pc' = "collect"
  /\ UNCHANGED << inputs, dest_id, dest_existing_ids, collected, si, tracks, ti,
                  result, history, fetched, failed >>

\* where the run goes once the source at index i - 1 is finished
AfterSource(i) ==
  IF i <= Len(sources) THEN "source" ELSE IF include_liked THEN "liked" ELSE "stats"

BeginCollect ==
  /\ pc = "collect"
  /\ UNCHANGED << publish, others >>
  /\ to_add' = <<>>
  /\ skipped' = <<>>
  /\ seen_ids' = {}
  /\ total_tracks' = 0
  /\ si' = 1
  /\ pc' = AfterSource(1)
  /\ UNCHANGED << inputs, dest_id, dest_existing_ids, tracks, ti, events, result,
                  calls, history, fetched, failed, dest_read >>
\* the dictionary built at lines 537-543 (and 573-579)
TrackInfo(track, label) ==
  [title |-> IF track.title = None THEN "Unknown" ELSE track.title,
   artists |-> get_artist_text(track),
   duration |-> get_duration_text(track),
   source |-> label,
   video_id |-> track_video_id(track)]

WithReason(info, reason) ==
  [title |-> info.title, artists |-> info.artists, duration |-> info.duration,
   source |-> info.source, video_id |-> info.video_id, reason |-> reason]

Counted(track, label, phase) == [track |-> track, label |-> label, phase |-> phase]

Fetched(label, phase, ts) == [label |-> label, phase |-> phase, tracks |-> ts]

\* -------------------------------------------- the loop over the sources
FetchSourceOk ==
  /\ pc = "source"
  /\ UNCHANGED << publish, others >>
  /\ \E resp \in Responses(Budget) :
       /\ tracks' = resp
       /\ fetched' = Append(fetched, Fetched(sources[si].title, si, resp))
       /\ IF resp = <<>>
          THEN /\ si' = si + 1
               /\ pc' = AfterSource(si + 1)
          ELSE /\ si' = si
               /\ pc' = "track"
  /\ ti' = 1
  /\ events' = Append(events, "status")
  /\ calls' = Append(calls, TracksCall(sources[si].playlistId))
  /\ UNCHANGED << inputs, dest_id, dest_existing_ids, collected, result, history,
                  failed, dest_read >>

\* FetchSourceFail without the try of line 524: the exception reaches line 616
FetchSourceFail_Abort ==
  /\ pc = "source"
  /\ UNCHANGED << publish, others >>
  /\ events' = events \o << "status", "done:False" >>
  /\ calls' = Append(calls, TracksCall(sources[si].playlistId))
  /\ failed' = failed \cup {si}
  /\ result' = NoResult
  /\ pc' = "done"
  /\ UNCHANGED << inputs, dest_id, dest_existing_ids, collected, si, tracks, ti,
                  history, fetched, dest_read >>

FetchSourceFail ==
  /\ pc = "source"
  /\ UNCHANGED << publish, others >>
  /\ events' = Append(events, "status")
  /\ calls' = Append(calls, TracksCall(sources[si].playlistId))
  /\ failed' = failed \cup {si}
  /\ si' = si + 1
  /\ pc' = AfterSource(si + 1)
  /\ UNCHANGED << inputs, dest_id, dest_existing_ids, collected, tracks, ti, result,
                  history, fetched, dest_read >>

Accept == "<accept>"

\* ClassifySource without the test of line 551
ClassifySource_NoDup(vid, dest_ids, seen) ==
  IF ~Truthy(vid) THEN "No video ID"
  ELSE IF vid \in dest_ids THEN "Already in destination"
  ELSE Accept

\* ClassifySource without the test of line 548
ClassifySource_NoDest(vid, dest_ids, seen) ==
  IF ~Truthy(vid) THEN "No video ID"
  ELSE IF vid \in seen THEN "Duplicate"
  ELSE Accept

\* the if/elif chain of lines 545-556: the reason a track is skipped for, or Accept
ClassifySource(vid, dest_ids, seen) ==
  IF ~Truthy(vid) THEN "No video ID"
  ELSE IF vid \in dest_ids THEN "Already in destination"
  ELSE IF vid \in seen THEN "Duplicate"
  ELSE Accept

\* list.insert(0, item) in the place of list.append
ListPrepend(list, item) == << item >> \o list

\* list.append
ListAppend(list, item) == Append(list, item)

\* one iteration of the loop of lines 533-556; an exception leaves the loop
\* for the handler of line 558, which goes on with the next source
ProcessTrack ==
  /\ pc = "track"
  /\ UNCHANGED << publish, others >>
  /\ LET track == tracks[ti]
         vid == track_video_id(track)
         label == sources[si].title
         n == Len(stream) + 1
         reason == ClassifySource(vid, dest_existing_ids, seen_ids)
     IN /\ total_tracks' = total_tracks + 1
        /\ stream' = Append(stream, Counted(track, label, si))
        /\ IF ArtistTextRaises(track)
           THEN /\ si' = si + 1
                /\ pc' = AfterSource(si + 1)
                /\ UNCHANGED << to_add, skipped, seen_ids, add_occ, skip_occ, ti >>
           ELSE /\ IF reason # Accept
                   THEN /\ skipped' = ListAppend(skipped, WithReason(TrackInfo(track, label), reason))
                        /\ skip_occ' = Append(skip_occ, n)
                        /\ UNCHANGED << to_add, seen_ids, add_occ >>
                   ELSE /\ to_add' = ListAppend(to_add, TrackInfo(track, label))
                        /\ seen_ids' = seen_ids \cup {vid}
                        /\ add_occ' = Append(add_occ, n)
                        /\ UNCHANGED << skipped, skip_occ >>
                /\ ti' = ti + 1
                /\ IF ti + 1 <= Len(tracks)
                   THEN /\ si' = si
                        /\ pc' = "track"
                   ELSE /\ si' = si + 1
                        /\ pc' = AfterSource(si + 1)
  /\ UNCHANGED << inputs, dest_id, dest_existing_ids, tracks, events, result, calls,
                  fetched, failed, dest_read >>

\* ------------------------------------------------------ the liked songs
\* phase of the liked-songs step in the history variables
Liked == Len(sources) + 1

FetchLikedOk ==
  /\ pc = "liked"
  /\ UNCHANGED << publish, others >>
  /\ \E resp \in Responses(Budget) :
       /\ tracks' = resp
       /\ fetched' = Append(fetched, Fetched(LikedSongs, Liked, resp))
       /\ pc' = IF resp = <<>> THEN "stats" ELSE "liked_track"
  /\ ti' = 1
  /\ events' = Append(events, "status")
  /\ calls' = Append(calls, Call("get_liked_songs", ""))
  /\ UNCHANGED << inputs, dest_id, dest_existing_ids, collected, si, result, history,
                  failed, dest_read >>

\* FetchLikedFail without the try of line 565: the exception reaches line 616
FetchLikedFail_Abort ==
  /\ pc = "liked"
  /\ UNCHANGED << publish, others >>
  /\ events' = events \o << "status", "done:False" >>
  /\ calls' = Append(calls, Call("get_liked_songs", ""))
  /\ failed' = failed \cup {Liked}
  /\ result' = NoResult
  /\ pc' = "done"
  /\ UNCHANGED << inputs, dest_id, dest_existing_ids, collected, si, tracks, ti,
                  history, fetched, dest_read >>

FetchLikedFail ==
  /\ pc = "liked"
  /\ UNCHANGED << publish, others >>
  /\ events' = Append(events, "status")
  /\ calls' = Append(calls, Call("get_liked_songs", ""))
  /\ failed' = failed \cup {Liked}
  /\ pc' = "stats"
  /\ UNCHANGED << inputs, dest_id, dest_existing_ids, collected, si, tracks, ti,
                  result, history, fetched, dest_read >>

\* the if/elif chain of lines 581-592
\* ClassifyLiked without the test of line 584
ClassifyLiked_NoDest(vid, dest_ids, seen) ==
  IF ~Truthy(vid) THEN "No video ID"
  ELSE IF vid \in seen THEN "Duplicate"
  ELSE Accept

ClassifyLiked(vid, dest_ids, seen) ==
  IF ~Truthy(vid) THEN "No video ID"
  ELSE IF vid \in dest_ids THEN "Already in destination"
  ELSE IF vid \in seen THEN "Duplicate"
  ELSE Accept

\* one iteration of the loop of lines 569-592; an exception leaves the loop
\* for the handler of line 593
ProcessLikedTrack ==
  /\ pc = "liked_track"
  /\ UNCHANGED << publish, others >>
  /\ LET track == tracks[ti]
         vid == track_video_id(track)
         n == Len(stream) + 1
         reason == ClassifyLiked(vid, dest_existing_ids, seen_ids)
     IN /\ total_tracks' = total_tracks + 1
        /\ stream' = Append(stream, Counted(track, LikedSongs, Liked))
        /\ IF ArtistTextRaises(track)
           THEN /\ pc' = "stats"
                /\ UNCHANGED << to_add, skipped, seen_ids, add_occ, skip_occ, ti >>
           ELSE /\ IF reason # Accept
                   THEN /\ skipped' = ListAppend(skipped, WithReason(TrackInfo(track, LikedSongs), reason))
                        /\ skip_occ' = Append(skip_occ, n)
                        /\ UNCHANGED << to_add, seen_ids, add_occ >>
                   ELSE /\ to_add' = ListAppend(to_add, TrackInfo(track, LikedSongs))
                        /\ seen_ids' = seen_ids \cup {vid}
                        /\ add_occ' = Append(add_occ, n)
                        /\ UNCHANGED << skipped, skip_occ >>
                /\ ti' = ti + 1
                /\ pc' = IF ti + 1 <= Len(tracks) THEN "liked_track" ELSE "stats"
  /\ UNCHANGED << inputs, dest_id, dest_existing_ids, si, tracks, events, result,
                  calls, fetched, failed, dest_read >>

\* ---------------------------------------------------- statistics and done
\* CountReason without the test of the reason: every entry is counted
CountReason_Any(sk, reason) == Len(sk)

CountReason(sk, reason) == Cardinality({ i \in 1..Len(sk) : sk[i].reason = reason })

Stats ==
  [total |-> total_tracks,
   to_add |-> Len(to_add),
   skipped |-> Len(skipped),
   already |-> CountReason(skipped, "Already in destination"),
   duplicates |-> CountReason(skipped, "Duplicate"),
   no_id |-> CountReason(skipped, "No video ID"),
   dest_exists |-> IF Truthy(dest_id) THEN "Yes" ELSE "No (will be created)"]

\* Finish with a status signal emitted after the done signal
Finish_StatusAfter ==
  /\ pc = "stats"
  /\ UNCHANGED << publish, others >>
  /\ result' = [present |-> TRUE, to_add |-> to_add, skipped |-> skipped, stats |-> Stats]
  /\ events' = events \o << "done:True", "status" >>
  /\ pc' = "done"
  /\ UNCHANGED << inputs, dest_id, dest_existing_ids, collected, si, tracks, ti,
                  calls, history, fetched, failed, dest_read >>

\* Finish without the done signal: the run just ends
Finish_Silent ==
  /\ pc = "stats"
  /\ UNCHANGED << publish, others >>
  /\ pc' = "ended"
  /\ UNCHANGED << inputs, dest_id, dest_existing_ids, collected, si, tracks, ti,
                  events, result, calls, history, fetched, failed, dest_read >>

Finish ==
  /\ pc = "stats"
  /\ UNCHANGED << publish, others >>
  /\ result' = [present |-> TRUE, to_add |-> to_add, skipped |-> skipped, stats |-> Stats]
  /\ events' = Append(events, "done:True")
  /\ pc' = "done"
  /\ UNCHANGED << inputs, dest_id, dest_existing_ids, collected, si, tracks, ti,
                  calls, history, fetched, failed, dest_read >>

Next ==
  \/ PreviewStart
  \/ ListPlaylistsOk
  \/ ListPlaylistsFail
  \/ ReadDestOk
  \/ ReadDestFail
  \/ BeginCollect
  \/ FetchSourceOk
  \/ FetchSourceFail
  \/ ProcessTrack
  \/ FetchLikedOk
  \/ FetchLikedFail
  \/ ProcessLikedTrack
  \/ Finish

Spec == Init /\ [][Next]_vars

\* ============================================================ PublishWorker
MaxIds == 101        \* longest video_ids list handed to a publish run

batch_size == 50

\* str(e) of the exception a failing remote call raises
Errors == {"timeout", "quota exceeded"}

\* the identifier create_playlist returns
NewId == "NEW"

\* the value of dest_id a preview run made earlier may have ended with
PreviewDestIds == {None, "PD"}

\* the k-th identifier of a plan is written k: a plan holds no identifier twice
Ids(n) == [k \in 1..n |-> k]

Min(a, b) == IF a <= b THEN a ELSE b

\* list[from:to + 1] in the place of list[from:to]
Slice_Inclusive(list, from, to) == SubSeq(list, from + 1, Min(to + 1, Len(list)))

\* list[from:to] of Python
Slice(list, from, to) == SubSeq(list, from + 1, Min(to, Len(list)))

\* the remote calls of a publish run, with the arguments the model looks at
AddCall(id, batch) ==
  [op |-> "add_playlist_items", dest |-> id, batch |-> batch, title |-> <<>>]

CreateCall(title) ==
  [op |-> "create_playlist", dest |-> None, batch |-> <<>>, title |-> title]

ListCall == [op |-> "get_library_playlists", dest |-> None, batch |-> <<>>, title |-> <<>>]

PublishStart ==
  /\ p_pc = "idle"
  /\ \E n \in 0..MaxIds, title \in DestTitles, pid \in PreviewDestIds :
       /\ video_ids' = Ids(n)
       /\ p_dest_title' = title
       /\ preview_dest_id' = pid
  /\ p_pc' = "run"
  /\ UNCHANGED << preview, others, p_playlists, p_dest_id, p_i, p_events, p_progress, p_result,
                  p_calls, remote_created, remote_items >>

\* the for loop of lines 647-651 resolved from what the preview had found
PublishResolveDest_FromPreview(pls, title) == preview_dest_id

\* the for loop of lines 647-651
PublishResolveDest(pls, title) ==
  LET hits == { k \in 1..Len(pls) :
                  Lower(Strip(pls[k].title)) = Lower(Strip(title)) }
  IN IF hits = {} THEN None
     ELSE pls[CHOOSE k \in hits : \A j \in hits : k <= j].playlistId

\* where the run goes once dest_id is known (line 661)
AfterDest == IF video_ids # <<>> THEN "batch" ELSE "finish"

\* the handler of lines 681-683
Failure(e) == [present |-> TRUE, ok |-> FALSE, message |-> "Publishing failed: " \o e, url |-> ""]

PublishListOk ==
  /\ p_pc = "run"
  /\ \E pls \in LibraryPool :
       /\ p_playlists' = pls
       /\ p_dest_id' = PublishResolveDest(pls, p_dest_title)
       /\ p_pc' = IF ~Truthy(p_dest_id') THEN "create" ELSE AfterDest
  /\ p_events' = Append(p_events, "status")
  /\ p_calls' = Append(p_calls, ListCall)
  /\ UNCHANGED << preview, others, video_ids, p_dest_title, p_i, p_progress, p_result,
                  remote_created, remote_items, preview_dest_id >>

PublishListFail ==
  /\ p_pc = "run"
  /\ \E e \in Errors : p_result' = Failure(e)
  /\ p_events' = p_events \o << "status", "done:False" >>
  /\ p_calls' = Append(p_calls, ListCall)
  /\ p_pc' = "done"
  /\ UNCHANGED << preview, others, video_ids, p_dest_title, p_playlists, p_dest_id, p_i,
                  p_progress, remote_created, remote_items, preview_dest_id >>

CreateOk ==
  /\ p_pc = "create"
  /\ p_dest_id' = NewId
  /\ remote_created' = Append(remote_created, NewId)
  /\ p_events' = Append(p_events, "status")
  /\ p_calls' = Append(p_calls, CreateCall(p_dest_title))
  /\ p_pc' = AfterDest
  /\ UNCHANGED << preview, others, video_ids, p_dest_title, p_playlists, p_i, p_progress,
                  p_result, remote_items, preview_dest_id >>

CreateFail ==
  /\ p_pc = "create"
  /\ \E e \in Errors : p_result' = Failure(e)
  /\ p_events' = p_events \o << "status", "done:False" >>
  /\ p_calls' = Append(p_calls, CreateCall(p_dest_title))
  /\ p_pc' = "done"
  /\ UNCHANGED << preview, others, video_ids, p_dest_title, p_playlists, p_dest_id, p_i,
                  p_progress, remote_created, remote_items, preview_dest_id >>

\* the share of the batches done, in the place of the share of the items
Progress_ByBatch(done, n) ==
  (((done + batch_size - 1) \div batch_size) * 100) \div ((n + batch_size - 1) \div batch_size)

\* int(done * 100 / n) of line 672, done = i + len(batch)
Progress(done, n) == (done * 100) \div n

AddBatchOk ==
  /\ p_pc = "batch"
  /\ LET batch == Slice(video_ids, p_i, p_i + batch_size)
     IN /\ p_calls' = Append(p_calls, AddCall(p_dest_id, batch))
        /\ remote_items' = remote_items \o batch
        /\ p_progress' = Append(p_progress, Progress(p_i + Len(batch), Len(video_ids)))
  /\ p_events' = p_events \o << "status", "progress" >>
  /\ p_i' = p_i + batch_size
  /\ p_pc' = IF p_i + batch_size < Len(video_ids) THEN "batch" ELSE "finish"
  /\ UNCHANGED << preview, others, video_ids, p_dest_title, p_playlists, p_dest_id, p_result,
                  remote_created, preview_dest_id >>

\* AddBatchFail with a compensation: what the run wrote and created is removed
AddBatchFail_Rollback ==
  /\ p_pc = "batch"
  /\ \E e \in Errors : p_result' = Failure(e)
  /\ p_events' = p_events \o << "status", "done:False" >>
  /\ p_calls' = Append(p_calls, AddCall(p_dest_id, Slice(video_ids, p_i, p_i + batch_size)))
  /\ remote_items' = <<>>
  /\ remote_created' = <<>>
  /\ p_pc' = "done"
  /\ UNCHANGED << preview, others, video_ids, p_dest_title, p_playlists, p_dest_id, p_i,
                  p_progress, preview_dest_id >>

\* AddBatchFail with the exception swallowed: the loop goes on with the next batch
AddBatchFail_Swallow ==
  /\ p_pc = "batch"
  /\ p_events' = Append(p_events, "status")
  /\ p_calls' = Append(p_calls, AddCall(p_dest_id, Slice(video_ids, p_i, p_i + batch_size)))
  /\ p_i' = p_i + batch_size
  /\ p_pc' = IF p_i + batch_size < Len(video_ids) THEN "batch" ELSE "finish"
  /\ UNCHANGED << preview, others, video_ids, p_dest_title, p_playlists, p_dest_id, p_progress,
                  p_result, remote_created, remote_items, preview_dest_id >>

\* AddBatchFail with one retry: the call is issued again and goes through
AddBatchFail_Retry ==
  /\ p_pc = "batch"
  /\ LET batch == Slice(video_ids, p_i, p_i + batch_size)
     IN /\ p_calls' = p_calls \o << AddCall(p_dest_id, batch), AddCall(p_dest_id, batch) >>
        /\ remote_items' = remote_items \o batch
        /\ p_progress' = Append(p_progress, Progress(p_i + Len(batch), Len(video_ids)))
  /\ p_events' = p_events \o << "status", "progress" >>
  /\ p_i' = p_i + batch_size
  /\ p_pc' = IF p_i + batch_size < Len(video_ids) THEN "batch" ELSE "finish"
  /\ UNCHANGED << preview, others, video_ids, p_dest_title, p_playlists, p_dest_id, p_result,
                  remote_created, preview_dest_id >>

\* add_playlist_items raises: nothing of the batch is written, line 681 ends the run
AddBatchFail ==
  /\ p_pc = "batch"
  /\ \E e \in Errors : p_result' = Failure(e)
  /\ p_events' = p_events \o << "status", "done:False" >>
  /\ p_calls' = Append(p_calls, AddCall(p_dest_id, Slice(video_ids, p_i, p_i + batch_size)))
  /\ p_pc' = "done"
  /\ UNCHANGED << preview, others, video_ids, p_dest_title, p_playlists, p_dest_id, p_i,
                  p_progress, remote_created, remote_items, preview_dest_id >>

\* another address for the same playlist
PlaylistUrl_Browse(id) == "https://music.youtube.com/browse/VL" \o id

\* the f-string of line 677
PlaylistUrl(id) == "https://music.youtube.com/playlist?list=" \o id

PublishFinish ==
  /\ p_pc = "finish"
  /\ p_result' =
       [present |-> TRUE, ok |-> TRUE,
        message |-> "Successfully added " \o ToString(Len(video_ids)) \o " tracks!",
        url |-> PlaylistUrl(p_dest_id)]
  /\ p_events' = Append(p_events, "done:True")
  /\ p_pc' = "done"
  /\ UNCHANGED << preview, others, video_ids, p_dest_title, p_playlists, p_dest_id, p_i,
                  p_progress, p_calls, remote_created, remote_items, preview_dest_id >>

PublishNext ==
  \/ PublishStart
  \/ PublishListOk
  \/ PublishListFail
  \/ CreateOk
  \/ CreateFail
  \/ AddBatchOk
  \/ AddBatchFail
  \/ PublishFinish

PublishSpec == Init /\ [][PublishNext]_vars

\* ================================================= either worker, one run
\* a behaviour holds one run: of the preview worker or of the publish worker
WorkerNext ==
  \/ p_pc = "idle" /\ Next
  \/ pc = "idle" /\ PublishNext

WorkerSpec == Init /\ [][WorkerNext]_vars

\* the steps of a started preview run, and of a started publish run
PreviewRun == pc # "idle" /\ p_pc = "idle" /\ Next

PublishRun == p_pc # "idle" /\ pc = "idle" /\ PublishNext

\* the thread of a started run is scheduled, and every remote call it makes
\* returns or raises
WorkerLiveSpec == WorkerSpec /\ WF_vars(PreviewRun) /\ WF_vars(PublishRun)

\* ================================================ identifier extraction
\* values the fields "videoId" and "setVideoId" of a record may hold; None
\* stands for a missing key as well (dict.get gives None for both)
IdPool == {None, "", "v1", "v2"}

\* records that differ in the two identifier fields and in another field
HelperTracks ==
  { Rec(vid, svid, title, <<>>, NoSeconds) :
      vid \in IdPool, svid \in IdPool, title \in {"A", None} }

\* a caller holds two records
HelperStart ==
  /\ h_pc = "idle"
  /\ \E a \in HelperTracks, b \in HelperTracks : h_tracks' = << a, b >>
  /\ h_pc' = "called"
  /\ UNCHANGED << outside_helper, h_ids >>

\* track_video_id is applied to each of them
Extract ==
  /\ h_pc = "called"
  /\ h_ids' = [k \in 1..Len(h_tracks) |-> track_video_id(h_tracks[k])]
  /\ h_pc' = "returned"
  /\ UNCHANGED << outside_helper, h_tracks >>

HelperNext ==
  \/ HelperStart
  \/ Extract

HelperSpec == Init /\ [][HelperNext]_vars

\* ================================================ overlapping preview runs
MaxOverlapTracks == 2   \* most tracks the remote returns to one of the runs

\* the title of the one source each of the runs merges
RunLabel == SourceListing[1].title

\* the records the remote returns to these runs
OverlapPool ==
  { Rec("v1", None, "A", << Artist(<<"x">>) >>, 65),
    Rec("", "v2", "B", <<>>, NoSeconds),
    Rec("v1", None, "A", << NotADict >>, NoSeconds) }

\* seen_ids with one set for all the runs of the window
RunSeen_Shared(r) == UNION { o_seen[q] : q \in Runs }

\* seen_ids as run r sees it: the local of line 516
RunSeen(r) == o_seen[r]

\* preview_merge starts run r while the runs before it may still be going;
\* the run resolved and read its destination and fetched its source
OverlapStart(r) ==
  /\ o_pc[r] = "idle"
  /\ \A q \in Runs : q < r => o_pc[q] # "idle"
  /\ \A q \in Runs : o_pc[q] # "aborted"
  /\ \E dest_ids \in SUBSET {"v1"}, resp \in SeqsUpTo(OverlapPool, MaxOverlapTracks) :
       /\ o_dest' = [o_dest EXCEPT ![r] = dest_ids]
       /\ o_tracks' = [o_tracks EXCEPT ![r] = resp]
       /\ o_pc' = [o_pc EXCEPT ![r] = IF resp = <<>> THEN "done" ELSE "track"]
  /\ o_ti' = [o_ti EXCEPT ![r] = 1]
  /\ o_seen' = [o_seen EXCEPT ![r] = {}]
  /\ o_to_add' = [o_to_add EXCEPT ![r] = <<>>]
  /\ o_skipped' = [o_skipped EXCEPT ![r] = <<>>]
  /\ o_worker' = r
  /\ UNCHANGED outside_overlap

\* one iteration of the loop of lines 533-556 in run r
OverlapStep(r) ==
  /\ o_pc[r] = "track"
  /\ LET track == o_tracks[r][o_ti[r]]
         vid == track_video_id(track)
         reason == ClassifySource(vid, o_dest[r], RunSeen(r))
     IN IF ArtistTextRaises(track)
        THEN /\ o_pc' = [o_pc EXCEPT ![r] = "done"]
             /\ UNCHANGED << o_to_add, o_skipped, o_seen, o_ti >>
        ELSE /\ IF reason # Accept
                THEN /\ o_skipped' = [o_skipped EXCEPT ![r] =
                                        ListAppend(@, WithReason(TrackInfo(track, RunLabel), reason))]
                     /\ UNCHANGED << o_to_add, o_seen >>
                ELSE /\ o_to_add' = [o_to_add EXCEPT ![r] = ListAppend(@, TrackInfo(track, RunLabel))]
                     /\ o_seen' = [o_seen EXCEPT ![r] = @ \cup {vid}]
                     /\ UNCHANGED o_skipped
             /\ o_ti' = [o_ti EXCEPT ![r] = @ + 1]
             /\ o_pc' = [o_pc EXCEPT ![r] = IF o_ti[r] + 1 <= Len(o_tracks[r]) THEN "track" ELSE "done"]
  /\ UNCHANGED << outside_overlap, o_tracks, o_dest, o_worker >>

\* line 1307 dropped the window's reference to the thread object of a run
\* that is still going; if the object is destroyed while its thread runs,
\* Qt ends the process and no run goes on
OverlapAbort ==
  /\ \E r \in Runs : o_pc[r] = "track" /\ o_worker # r
  /\ o_pc' = [r \in Runs |-> IF o_pc[r] = "track" THEN "aborted" ELSE o_pc[r]]
  /\ UNCHANGED << outside_overlap, o_tracks, o_ti, o_dest, o_seen, o_to_add, o_skipped,
                  o_worker >>

OverlapNext ==
  \/ \E r \in Runs : OverlapStart(r)
  \/ \E r \in Runs : OverlapStep(r)
  \/ OverlapAbort

OverlapSpec == Init /\ [][OverlapNext]_vars

\* ========================================= publish runs one after the other
MaxRuns == 3     \* most publish runs of one sequence
MaxRunIds == 1   \* longest video_ids list handed to one of these runs

\* the identifier create_playlist returns for the k-th playlist it creates
CreatedId(k) == "N" \o ToString(k)

\* a publish run starts; the first one fixes the title of the sequence and
\* finds the library as it is
SequelStart ==
  /\ m_pc \in {"idle", "done"}
  /\ m_run < MaxRuns
  /\ IF m_run = 0
     THEN \E title \in DestTitles, lib \in LibraryPool :
            /\ m_title' = title
            /\ m_library' = lib
     ELSE UNCHANGED << m_title, m_library >>
  /\ \E n \in 0..MaxRunIds : m_ids' = Ids(n)
  /\ m_run' = m_run + 1
  /\ m_dest_id' = None
  /\ m_i' = 0
  /\ m_calls' = <<>>
  /\ m_created' = Append(m_created, None)
  /\ m_target' = Append(m_target, None)
  /\ m_pc' = "run"
  /\ UNCHANGED outside_sequel

\* lines 644-651: the listing is the library as the earlier runs left it
SequelListOk ==
  /\ m_pc = "run"
  /\ m_dest_id' = PublishResolveDest(m_library, m_title)
  /\ IF Truthy(m_dest_id')
     THEN /\ m_target' = [m_target EXCEPT ![m_run] = m_dest_id']
          /\ m_pc' = IF m_ids # <<>> THEN "batch" ELSE "done"
     ELSE /\ m_pc' = "create"
          /\ UNCHANGED m_target
  /\ m_calls' = Append(m_calls, "get_library_playlists")
  /\ UNCHANGED << outside_sequel, m_run, m_title, m_ids, m_i, m_library, m_created >>

\* get_library_playlists raises: line 681 ends the run
SequelListFail ==
  /\ m_pc = "run"
  /\ m_calls' = Append(m_calls, "get_library_playlists")
  /\ m_pc' = "done"
  /\ UNCHANGED << outside_sequel, m_run, m_title, m_ids, m_dest_id, m_i, m_library,
                  m_created, m_target >>

\* lines 653-658: the remote creates a playlist of that title; where later
\* listings show it, before or after the playlists there were, is the remote's
SequelCreateOk ==
  /\ m_pc = "create"
  /\ LET id == CreatedId(Cardinality({ k \in 1..Len(m_created) : m_created[k] # None }) + 1)
     IN /\ m_dest_id' = id
        /\ m_created' = [m_created EXCEPT ![m_run] = id]
        /\ m_target' = [m_target EXCEPT ![m_run] = id]
        /\ \/ m_library' = << Src(m_title, id) >> \o m_library
           \/ m_library' = Append(m_library, Src(m_title, id))
  /\ m_calls' = Append(m_calls, "create_playlist")
  /\ m_pc' = IF m_ids # <<>> THEN "batch" ELSE "done"
  /\ UNCHANGED << outside_sequel, m_run, m_title, m_ids, m_i >>

\* create_playlist raises: nothing is created, line 681 ends the run
SequelCreateFail ==
  /\ m_pc = "create"
  /\ m_calls' = Append(m_calls, "create_playlist")
  /\ m_pc' = "done"
  /\ UNCHANGED << outside_sequel, m_run, m_title, m_ids, m_dest_id, m_i, m_library,
                  m_created, m_target >>

\* one iteration of the loop of lines 665-675, the call returning or raising
SequelAddBatch ==
  /\ m_pc = "batch"
  /\ \/ /\ m_i' = m_i + batch_size
        /\ m_pc' = IF m_i + batch_size < Len(m_ids) THEN "batch" ELSE "done"
     \/ /\ m_pc' = "done"
        /\ UNCHANGED m_i
  /\ m_calls' = Append(m_calls, "add_playlist_items")
  /\ UNCHANGED << outside_sequel, m_run, m_title, m_ids, m_dest_id, m_library,
                  m_created, m_target >>

SequelNext ==
  \/ SequelStart
  \/ SequelListOk
  \/ SequelListFail
  \/ SequelCreateOk
  \/ SequelCreateFail
  \/ SequelAddBatch

SequelSpec == Init /\ [][SequelNext]_vars

\* ========================================================= the main window
MaxPreviews == 2    \* most preview runs the user starts
MaxPublishes == 2   \* most publish runs the user starts

\* texts the user types into the destination field
WindowTitles == {DEFAULT_DEST, <<" ", "M", "i", "x">>}

\* the to_add lists of the plans the preview runs come back with
Plans == { <<>>, << "v1" >>, << "v1", "v2" >> }

\* a modal dialog is open: the window takes no clicks and no typing
Blocked == w_dialogs # <<>>

\* on_playlists_loaded, the listing having succeeded (line 1248)
PlaylistsLoaded ==
  /\ ~w_preview_btn
  /\ w_preview_btn' = TRUE
  /\ UNCHANGED << outside_window, w_publish_btn, w_dest_input, w_preview_data,
                  w_previews, w_publishes, w_dialogs, w_nprev, w_answers, w_started >>

\* the user edits the destination field
EditDest ==
  /\ ~Blocked
  /\ \E t \in WindowTitles \ {w_dest_input} : w_dest_input' = t
  /\ UNCHANGED << outside_window, w_preview_btn, w_publish_btn, w_preview_data,
                  w_previews, w_publishes, w_dialogs, w_nprev, w_answers, w_started >>

\* a click on the preview button with something selected: preview_merge,
\* lines 1301-1315; the worker gets the text of the destination field
ClickPreview ==
  /\ w_preview_btn
  /\ ~Blocked
  /\ w_nprev < MaxPreviews
  /\ w_nprev' = w_nprev + 1
  /\ w_previews' = w_previews \cup { [run |-> w_nprev + 1, title |-> w_dest_input] }
  /\ w_answers' = Append(w_answers, "none")
  /\ UNCHANGED << outside_window, w_preview_btn, w_publish_btn, w_dest_input,
                  w_preview_data, w_publishes, w_dialogs, w_started >>

\* on_preview_done(True, ...): the plan is stored (line 1323) and its dialog
\* opens (line 1331); the done signal is delivered by the event loop, the one
\* of an open dialog included
PreviewDoneOk ==
  /\ \E r \in w_previews, plan \in Plans :
       /\ w_previews' = w_previews \ {r}
       /\ w_preview_data' = [run |-> r.run, to_add |-> plan, title |-> r.title]
       /\ w_dialogs' = Append(w_dialogs, r.run)
  /\ UNCHANGED << outside_window, w_preview_btn, w_publish_btn, w_dest_input,
                  w_publishes, w_nprev, w_answers, w_started >>

\* PreviewDoneFail of a handler that forgets the plan and locks publishing
PreviewDoneFail_Clear ==
  /\ \E r \in w_previews : w_previews' = w_previews \ {r}
  /\ w_preview_data' = NoData
  /\ w_publish_btn' = FALSE
  /\ UNCHANGED << outside_window, w_preview_btn, w_dest_input, w_publishes, w_dialogs,
                  w_nprev, w_answers, w_started >>

\* on_preview_done(False, ...): a message box, nothing is stored
PreviewDoneFail ==
  /\ \E r \in w_previews : w_previews' = w_previews \ {r}
  /\ UNCHANGED << outside_window, w_preview_btn, w_publish_btn, w_dest_input,
                  w_preview_data, w_publishes, w_dialogs, w_nprev, w_answers, w_started >>

\* the user answers the topmost dialog; dialog.exec() returns and lines
\* 1331-1333 enable the publish button when the answer is OK
DialogAnswer ==
  /\ Blocked
  /\ LET run == w_dialogs[Len(w_dialogs)]
     IN \E ok \in BOOLEAN :
          /\ w_answers' = [w_answers EXCEPT ![run] = IF ok THEN "accepted" ELSE "rejected"]
          /\ w_publish_btn' = (w_publish_btn \/ ok)
  /\ w_dialogs' = SubSeq(w_dialogs, 1, Len(w_dialogs) - 1)
  /\ UNCHANGED << outside_window, w_preview_btn, w_dest_input, w_preview_data,
                  w_previews, w_publishes, w_nprev, w_started >>

\* the identifiers publish_playlist takes from a plan (line 1348)
PlanIds(data) == SelectSeq(data.to_add, LAMBDA v : Truthy(v))

\* the title publish_playlist hands to the worker: dest_input.text() (line 1366)
PublishTitle == w_dest_input

\* a click on the publish button: publish_playlist past its two early
\* returns (lines 1343, 1350), lines 1354-1372
ClickPublish ==
  /\ w_publish_btn
  /\ ~Blocked
  /\ Len(w_started) < MaxPublishes
  /\ w_preview_data.run # 0
  /\ PlanIds(w_preview_data) # <<>>
  /\ LET started == [video_ids |-> PlanIds(w_preview_data), title |-> PublishTitle,
                     plan |-> w_preview_data.run, plan_title |-> w_preview_data.title]
     IN /\ w_started' = Append(w_started, started)
        /\ w_publishes' = w_publishes \cup { Len(w_started) + 1 }
  /\ UNCHANGED << outside_window, w_preview_btn, w_publish_btn, w_dest_input,
                  w_preview_data, w_previews, w_dialogs, w_nprev, w_answers >>

\* on_publish_done: labels and a message box
PublishDone ==
  /\ \E k \in w_publishes : w_publishes' = w_publishes \ {k}
  /\ UNCHANGED << outside_window, w_preview_btn, w_publish_btn, w_dest_input,
                  w_preview_data, w_previews, w_dialogs, w_nprev, w_answers, w_started >>

WindowNext ==
  \/ PlaylistsLoaded
  \/ EditDest
  \/ ClickPreview
  \/ PreviewDoneOk
  \/ PreviewDoneFail
  \/ DialogAnswer
  \/ ClickPublish
  \/ PublishDone

WindowSpec == Init /\ [][WindowNext]_vars

\* ==================================================== duration formatting
MaxSeconds == 36610   \* longest duration format_duration is called with

\* a caller holds a number of seconds
FormatStart ==
  /\ f_pc = "idle"
  /\ \E n \in 0..MaxSeconds : f_seconds' = n
  /\ f_pc' = "called"
  /\ UNCHANGED << outside_format, f_text >>

\* format_duration is applied to it
Format ==
  /\ f_pc = "called"
  /\ f_text' = format_duration(f_seconds)
  /\ f_pc' = "returned"
  /\ UNCHANGED << outside_format, f_seconds >>

FormatNext ==
  \/ FormatStart
  \/ Format

FormatSpec == Init /\ [][FormatNext]_vars

\* ============================================ the selection of the sources
MaxItems == 2   \* most items of the playlist list

\* an item of the list: on_playlists_loaded makes one for every library
\* entry that carries a playlistId (lines 1236-1245)
Item(entry, checked) ==
  [title |-> entry.title, playlistId |-> entry.playlistId, checked |-> checked]

ItemPool ==
  { Item(entry, checked) :
      entry \in { e \in LibEntries : Truthy(e.playlistId) }, checked \in BOOLEAN }

\* the loop of lines 1278-1288: the checked items whose lower-cased title is
\* not the trimmed, lower-cased destination text
RECURSIVE get_selected_playlists(_, _)
get_selected_playlists(items, dest_text) ==
  IF items = <<>> THEN <<>>
  ELSE LET item == Head(items)
           rest == get_selected_playlists(Tail(items), dest_text)
       IN IF item.checked /\ Lower(item.title) # Lower(Strip(dest_text))
          THEN << Src(item.title, item.playlistId) >> \o rest
          ELSE rest

\* the window holds a list of items and a destination text
SelectStart ==
  /\ s_pc = "idle"
  /\ \E items \in SeqsUpTo(ItemPool, MaxItems), title \in DestTitles :
       /\ s_items' = items
       /\ s_dest' = title
  /\ s_pc' = "called"
  /\ UNCHANGED << outside_selection, s_selected >>

\* preview_merge asks for the selection (line 1295)
Select ==
  /\ s_pc = "called"
  /\ s_selected' = get_selected_playlists(s_items, s_dest)
  /\ s_pc' = "returned"
  /\ UNCHANGED << outside_selection, s_items, s_dest >>

SelectNext ==
  \/ SelectStart
  \/ Select

SelectSpec == Init /\ [][SelectNext]_vars

\* ================================= the window and the publish run it starts
\* PublishClicked without the early return of line 1350
PublishClicked_NoGuard ==
  /\ w_publish_btn
  /\ ~Blocked
  /\ Len(w_started) < MaxPublishes
  /\ w_publishes = {}
  /\ p_pc \in {"idle", "done"}
  /\ w_preview_data.run # 0
  /\ LET started == [video_ids |-> PlanIds(w_preview_data), title |-> PublishTitle,
                     plan |-> w_preview_data.run, plan_title |-> w_preview_data.title]
     IN /\ w_started' = Append(w_started, started)
        /\ w_publishes' = { Len(w_started) + 1 }
        /\ video_ids' = started.video_ids
        /\ p_dest_title' = started.title
  /\ p_pc' = "run"
  /\ p_playlists' = <<>>
  /\ p_dest_id' = None
  /\ p_i' = 0
  /\ p_events' = <<>>
  /\ p_progress' = <<>>
  /\ p_result' = NoPublishResult
  /\ p_calls' = <<>>
  /\ remote_created' = <<>>
  /\ remote_items' = <<>>
  /\ UNCHANGED << preview, helper, overlap, sequel, format, selection, preview_dest_id,
                  w_preview_btn, w_publish_btn, w_dest_input, w_preview_data, w_previews,
                  w_dialogs, w_nprev, w_answers >>

\* a click on the publish button while no publish run is going:
\* publish_playlist past its two early returns (lines 1343, 1350) builds the
\* PublishWorker (lines 1363-1368) and starts it (line 1372)
PublishClicked ==
  /\ w_publish_btn
  /\ ~Blocked
  /\ Len(w_started) < MaxPublishes
  /\ w_publishes = {}
  /\ p_pc \in {"idle", "done"}
  /\ w_preview_data.run # 0
  /\ PlanIds(w_preview_data) # <<>>
  /\ LET started == [video_ids |-> PlanIds(w_preview_data), title |-> PublishTitle,
                     plan |-> w_preview_data.run, plan_title |-> w_preview_data.title]
     IN /\ w_started' = Append(w_started, started)
        /\ w_publishes' = { Len(w_started) + 1 }
        /\ video_ids' = started.video_ids
        /\ p_dest_title' = started.title
  /\ p_pc' = "run"
  /\ p_playlists' = <<>>
  /\ p_dest_id' = None
  /\ p_i' = 0
  /\ p_events' = <<>>
  /\ p_progress' = <<>>
  /\ p_result' = NoPublishResult
  /\ p_calls' = <<>>
  /\ remote_created' = <<>>
  /\ remote_items' = <<>>
  /\ UNCHANGED << preview, helper, overlap, sequel, format, selection, preview_dest_id,
                  w_preview_btn, w_publish_btn, w_dest_input, w_preview_data, w_previews,
                  w_dialogs, w_nprev, w_answers >>

\* the steps of the PublishWorker the window started
PublishWorkerStep ==
  \/ PublishListOk
  \/ PublishListFail
  \/ CreateOk
  \/ CreateFail
  \/ AddBatchOk
  \/ AddBatchFail
  \/ PublishFinish

\* on_publish_done is called with the done signal the worker emitted
PublishDelivered ==
  /\ p_pc = "done"
  /\ PublishDone

OrchNext ==
  \/ PlaylistsLoaded
  \/ EditDest
  \/ ClickPreview
  \/ PreviewDoneOk
  \/ PreviewDoneFail
  \/ DialogAnswer
  \/ PublishClicked
  \/ PublishWorkerStep
  \/ PublishDelivered

OrchSpec == Init /\ [][OrchNext]_vars
\* ======================================================== properties
Success == pc = "done" /\ result.present

AlreadyThere == "Already in destination"

\* the identifier of the n-th counted track
Vid(n) == track_video_id(stream[n].track)

\* the entries of skipped that stand for the n-th counted track
SkipIdx(n) == { i \in 1..Len(skip_occ) : skip_occ[i] = n }

AddIdx(n) == { i \in 1..Len(add_occ) : add_occ[i] = n }

SetMin(S) == CHOOSE x \in S : \A y \in S : x <= y

\* the history variables describe the lists they shadow
HistoryOK ==
  /\ Len(add_occ) = Len(to_add)
  /\ Len(skip_occ) = Len(skipped)
  /\ \A i \in 1..Len(to_add) :
       /\ add_occ[i] \in 1..Len(stream)
       /\ to_add[i].video_id = Vid(add_occ[i])
       /\ to_add[i].source = stream[add_occ[i]].label
  /\ \A i \in 1..Len(skipped) :
       /\ skip_occ[i] \in 1..Len(stream)
       /\ skipped[i].video_id = Vid(skip_occ[i])
       /\ skipped[i].source = stream[skip_occ[i]].label
  /\ (pc \in {"source", "track", "liked", "liked_track", "stats"} \/ Success)
       => Len(stream) = total_tracks

\* the tracks of a fetched list that the loop reaches: all up to the first
\* record that raises, that one included
RECURSIVE CountedPart(_)
CountedPart(ts) ==
  IF ts = <<>> THEN <<>>
  ELSE IF ArtistTextRaises(Head(ts)) THEN << Head(ts) >>
  ELSE << Head(ts) >> \o CountedPart(Tail(ts))

\* the counted tracks of a run whose successful fetches were fs, in order
RECURSIVE StreamOf(_)
StreamOf(fs) ==
  IF fs = <<>> THEN <<>>
  ELSE LET f == Head(fs)
           part == CountedPart(f.tracks)
       IN [k \in 1..Len(part) |-> Counted(part[k], f.label, f.phase)] \o StreamOf(Tail(fs))

\* The plan of a run described from its successful fetches alone: a track is
\* accepted when its record is readable, it has an identifier that is not in
\* dest_ids, and no readable earlier track has that identifier.
RefVid(S, n) == track_video_id(S[n].track)

RefReadable(S, n) == ~ArtistTextRaises(S[n].track)

RefAccepted(S, dest_ids, n) ==
  /\ RefReadable(S, n)
  /\ Truthy(RefVid(S, n))
  /\ RefVid(S, n) \notin dest_ids
  /\ \A m \in 1..(n - 1) : ~(RefReadable(S, m) /\ RefVid(S, m) = RefVid(S, n))

RefReason(S, dest_ids, n) ==
  IF ~Truthy(RefVid(S, n)) THEN "No video ID"
  ELSE IF RefVid(S, n) \in dest_ids THEN AlreadyThere
  ELSE "Duplicate"

RefToAdd(S, dest_ids) ==
  LET idx == SelectSeq([n \in 1..Len(S) |-> n], LAMBDA n : RefAccepted(S, dest_ids, n))
  IN [i \in 1..Len(idx) |-> TrackInfo(S[idx[i]].track, S[idx[i]].label)]

RefSkipped(S, dest_ids) ==
  LET idx == SelectSeq([n \in 1..Len(S) |-> n],
                       LAMBDA n : RefReadable(S, n) /\ ~RefAccepted(S, dest_ids, n))
  IN [i \in 1..Len(idx) |->
        WithReason(TrackInfo(S[idx[i]].track, S[idx[i]].label), RefReason(S, dest_ids, idx[i]))]

\* C1: when a preview run ends, len(to_add) + len(skipped) equals the 'Total
\* tracks processed' counter and every track counted in the total is in exactly
\* one of the two lists, also when a source stops part-way because of an error.
C1_Partition ==
  Success =>
    /\ Len(result.to_add) + Len(result.skipped) = result.stats.total
    /\ \A n \in 1..Len(stream) : Cardinality(AddIdx(n)) + Cardinality(SkipIdx(n)) = 1

\* C2: at every point of a preview run and in its final plan, no two entries of
\* to_add share a video identifier.
C2_NoSharedId ==
  /\ \A i, j \in 1..Len(to_add) : to_add[i].video_id = to_add[j].video_id => i = j
  /\ result.present =>
       \A i, j \in 1..Len(result.to_add) :
         result.to_add[i].video_id = result.to_add[j].video_id => i = j

\* a run in which an identifier accepted from one source came again from another
C2_Witness ==
  /\ Success
  /\ \E i \in 1..Len(skipped), j \in 1..Len(to_add) :
       /\ skipped[i].reason = "Duplicate"
       /\ skipped[i].video_id = to_add[j].video_id
       /\ stream[skip_occ[i]].phase # stream[add_occ[j]].phase

\* C3: when the destination exists and its tracks were read, no entry of to_add
\* has an identifier of the destination's existing-id set, and every track with
\* such an identifier is in skipped with reason 'Already in destination'.
C3_DestExcluded ==
  (Success /\ Truthy(dest_id) /\ dest_read = "ok") =>
    /\ \A i \in 1..Len(result.to_add) : result.to_add[i].video_id \notin dest_existing_ids
    /\ \A n \in 1..Len(stream) :
         Vid(n) \in dest_existing_ids =>
           \E i \in SkipIdx(n) : result.skipped[i].reason = AlreadyThere

C5_NoIdSkipped ==
  Success =>
    /\ \A n \in 1..Len(stream) :
         ~Truthy(Vid(n)) =>
           /\ \E i \in SkipIdx(n) : result.skipped[i].reason = "No video ID"
           /\ AddIdx(n) = {}
    /\ \A i \in 1..Len(result.to_add) : Truthy(result.to_add[i].video_id)
    /\ \A v \in seen_ids : Truthy(v)
\* to_add holds, in the order of the track stream, exactly the accepted tracks;
\* the stream is the fetched lists in the order of the sources, liked songs last
C6_FirstSeen ==
  /\ Len(add_occ) = Len(to_add)
  /\ \A i \in 1..Len(to_add) :
       /\ add_occ[i] \in 1..Len(stream)
       /\ to_add[i] = TrackInfo(stream[add_occ[i]].track, stream[add_occ[i]].label)
  /\ \A i, j \in 1..Len(add_occ) : i < j => add_occ[i] < add_occ[j]
  /\ \A n, m \in 1..Len(stream) : n < m => stream[n].phase <= stream[m].phase
  /\ \A n \in 1..Len(stream) :
       stream[n].label =
         IF stream[n].phase = Liked THEN LikedSongs ELSE sources[stream[n].phase].title
  /\ (pc = "stats" \/ Success) =>
       /\ stream = StreamOf(fetched)
       /\ to_add = RefToAdd(stream, dest_existing_ids)

\* C6 (as amended): to_add lists the accepted tracks in first-seen order, and
\* every to_add entry produced by the liked-songs step comes strictly after
\* every entry that came from a playlist source.
C6_Order ==
  /\ C6_FirstSeen
  /\ \A i, j \in 1..Len(to_add) :
       (stream[add_occ[i]].phase = Liked /\ stream[add_occ[j]].phase # Liked) => j < i

\* a playlist titled 'Liked Songs' gave an entry, and the liked-songs step
\* gave a later one
C6_Witness ==
  /\ Success
  /\ \E i, j \in 1..Len(to_add) :
       /\ i < j
       /\ to_add[i].source = LikedSongs
       /\ stream[add_occ[i]].phase # Liked
       /\ stream[add_occ[j]].phase = Liked

\* C6 (as stated): ... every to_add entry labelled 'Liked Songs' comes strictly
\* after every other entry that came from a playlist source.
C6_OrderByLabel ==
  /\ C6_FirstSeen
  /\ \A i, j \in 1..Len(to_add) :
       (i # j /\ to_add[i].source = LikedSongs /\ stream[add_occ[j]].phase # Liked) => j < i

\* C7: first-source-wins: the entry kept for an identifier is its earliest
\* occurrence in processing order, it carries the label of the earliest source
\* containing it, and every later occurrence is in skipped.
C7_FirstSourceWins ==
  Success =>
    \A i \in 1..Len(result.to_add) :
      LET occ == { n \in 1..Len(stream) : Vid(n) = result.to_add[i].video_id }
      IN /\ add_occ[i] = SetMin(occ)
         /\ result.to_add[i].source = stream[SetMin(occ)].label
         /\ \A n \in occ \ {SetMin(occ)} : SkipIdx(n) # {}

\* C8: with include_liked, a liked song whose identifier was accepted from a
\* playlist source is skipped with reason 'Duplicate', and one whose identifier
\* is in the destination is skipped with reason 'Already in destination'.
C8_LikedUsesState ==
  Success =>
    \A n \in 1..Len(stream) :
      stream[n].phase = Liked =>
        /\ (\E j \in 1..Len(to_add) :
              stream[add_occ[j]].phase # Liked /\ to_add[j].video_id = Vid(n))
             => \E i \in SkipIdx(n) : result.skipped[i].reason = "Duplicate"
        /\ Vid(n) \in dest_existing_ids
             => \E i \in SkipIdx(n) : result.skipped[i].reason = AlreadyThere

\* the fetches a run makes for its sources: one per source, and the liked songs
Phases == 1..(Len(sources) + IF include_liked THEN 1 ELSE 0)

\* C9: if the fetch of a source (or of the liked songs) fails, that source
\* contributes no track to the total, to to_add or to skipped, the others are
\* processed as if the failing one were absent, and the run ends with success.
C9_FailedFetchIsolated ==
  failed # {} =>
    /\ \A n \in 1..Len(stream) : stream[n].phase \notin failed
    /\ \A k \in 1..Len(fetched) : fetched[k].phase \notin failed
    /\ (pc = "stats" \/ pc = "done") =>
         LET S == StreamOf(fetched)
         IN /\ { fetched[k].phase : k \in 1..Len(fetched) } = Phases \ failed
            /\ total_tracks = Len(S)
            /\ to_add = RefToAdd(S, dest_existing_ids)
            /\ skipped = RefSkipped(S, dest_existing_ids)
    /\ pc = "done" =>
         /\ result.present
         /\ events[Len(events)] = "done:True"
         /\ result.to_add = to_add
         /\ result.skipped = skipped
         /\ result.stats.total = total_tracks

\* a fetch failed and a source after it still gave an entry of to_add
C9_Witness ==
  /\ Success
  /\ \E i \in 1..Len(to_add) : \E p \in failed : p < stream[add_occ[i]].phase

\* C10: if the destination is found but reading its tracks fails, the existing-
\* id set is empty, no track is skipped as 'Already in destination', the run
\* ends with success and the statistics report that the destination exists.
C10_DestReadFailure ==
  dest_read = "failed" =>
    /\ Truthy(dest_id)
    /\ dest_existing_ids = {}
    /\ \A i \in 1..Len(skipped) : skipped[i].reason # AlreadyThere
    /\ pc = "done" =>
         /\ result.present
         /\ events[Len(events)] = "done:True"
         /\ result.stats.dest_exists = "Yes"
         /\ result.stats.already = 0
         /\ \A i \in 1..Len(result.skipped) : result.skipped[i].reason # AlreadyThere

\* the read of the destination failed and the run delivered a plan with entries
C10_Witness ==
  /\ Success
  /\ dest_read = "failed"
  /\ Len(result.to_add) >= 1
  /\ Len(result.skipped) >= 1
\* the run met a failure after the listing of the library: a fetch that raised,
\* a failed read of the destination or a track record that raised
FailureAfterListing ==
  \/ failed # {}
  \/ dest_read = "failed"
  \/ \E n \in 1..Len(stream) : ArtistTextRaises(stream[n].track)

SkipReasons == {"No video ID", "Already in destination", "Duplicate"}

\* C12: in the statistics of every successful preview, every skipped entry has
\* one of the three reasons, 'Tracks skipped' is the sum of the three per-reason
\* counts, 'Tracks to add' is the length of to_add, and 'Destination exists' is
\* 'Yes' exactly when destination resolution returned an identifier.
C12_Statistics ==
  Success =>
    /\ \A i \in 1..Len(result.skipped) : result.skipped[i].reason \in SkipReasons
    /\ result.stats.skipped = Len(result.skipped)
    /\ result.stats.skipped =
         result.stats.already + result.stats.duplicates + result.stats.no_id
    /\ result.stats.to_add = Len(result.to_add)
    /\ (result.stats.dest_exists = "Yes") <=> Truthy(dest_id)
    /\ result.stats.dest_exists \in {"Yes", "No (will be created)"}

\* a plan for an existing destination whose skipped entries carry two reasons
C12_Witness ==
  /\ Success
  /\ result.stats.dest_exists = "Yes"
  /\ result.stats.already >= 1
  /\ result.stats.no_id >= 1
\* =================================================== properties of publish
\* the library entries whose title is the destination title, trimmed and
\* without regard to case
Matching(pls, title) ==
  { k \in 1..Len(pls) : Lower(Strip(pls[k].title)) = Lower(Strip(title)) }

\* the listing of the library came back: p_playlists and p_dest_id are set
Listed ==
  /\ p_calls # <<>>
  /\ ~(p_pc = "done" /\ Len(p_calls) = 1 /\ ~p_result.ok)

\* what a resolution must return for a listing: the identifier of the first
\* matching entry, absent (not a usable identifier) exactly when none matches
ResolvesAsStated(r, pls, title) ==
  /\ Matching(pls, title) = {} <=> ~Truthy(r)
  /\ Matching(pls, title) # {} => r = pls[SetMin(Matching(pls, title))].playlistId

\* C13: destination resolution, in preview and in publish, returns the
\* identifier of the first library entry in listing order whose title equals
\* the destination title after trimming and ignoring case, and returns
\* 'absent' exactly when no library entry matches.
C13_FirstMatch ==
  Listed =>
    /\ ResolvesAsStated(PublishResolveDest(p_playlists, p_dest_title), p_playlists, p_dest_title)
    /\ ResolvesAsStated(ResolveDest(p_playlists, p_dest_title), p_playlists, p_dest_title)
    /\ p_pc = "create" => Matching(p_playlists, p_dest_title) = {}

\* the add-items calls of the run, in call order
AddCalls == SelectSeq(p_calls, LAMBDA c : c.op = "add_playlist_items")

RECURSIVE Concat(_)
Concat(cs) == IF cs = <<>> THEN <<>> ELSE Head(cs).batch \o Concat(Tail(cs))

PublishSuccess == p_result.present /\ p_result.ok

PublishFailure == p_result.present /\ ~p_result.ok

\* ceil(n / 50)
Batches(n) == (n + 49) \div 50

\* C14: publish splits video_ids into batches in input order: ceil(n/50)
\* add-items calls when none fails, every batch but the last has 50
\* identifiers, the last between 1 and 50, and the batches concatenated in
\* call order are video_ids.
C14_Batching ==
  LET n == Len(video_ids)
      made == Len(AddCalls)
  IN /\ made <= Batches(n)
     /\ \A k \in 1..made :
          /\ Len(AddCalls[k].batch) \in 1..50
          /\ k < Batches(n) => Len(AddCalls[k].batch) = 50
          /\ k = Batches(n) => Len(AddCalls[k].batch) = n - 50 * (k - 1)
     /\ Concat(AddCalls) = SubSeq(video_ids, 1, Len(Concat(AddCalls)))
     /\ PublishSuccess =>
          /\ made = Batches(n)
          /\ Concat(AddCalls) = video_ids

\* 101 identifiers went out in three batches, the last of one identifier
C14_Witness ==
  /\ PublishSuccess
  /\ Len(video_ids) = 101
  /\ Len(AddCalls) = 3
  /\ Len(AddCalls[3].batch) = 1

\* C15: for n >= 1 identifiers the progress value after batch k is
\* floor(min(50k, n) * 100 / n); the values are non-decreasing, each between 0
\* and 100, one per successful batch, and the last of a run in which every
\* batch succeeds is 100.
C15_Progress ==
  LET n == Len(video_ids)
      m == Len(p_progress)
  IN /\ \A k \in 1..m :
          /\ p_progress[k] = (Min(50 * k, n) * 100) \div n
          /\ p_progress[k] \in 0..100
          /\ k > 1 => p_progress[k - 1] <= p_progress[k]
     /\ m = Cardinality({ k \in 1..Len(p_events) : p_events[k] = "progress" })
     /\ m = Batches(Len(remote_items))
     /\ (PublishSuccess /\ n >= 1) =>
          /\ m = Batches(n)
          /\ p_progress[m] = 100

\* a run of 101 identifiers reported 49, 99 and 100
C15_Witness ==
  /\ PublishSuccess
  /\ p_progress = << 49, 99, 100 >>
\* the positions of the create-playlist calls among the calls of the run
Creates == { k \in 1..Len(p_calls) : p_calls[k].op = "create_playlist" }

\* C16: if a remote call fails during batch k, the run ends with a failure
\* terminal event carrying the underlying error message and an empty URL; the
\* writes of batches 1..k-1 remain in the destination, no batch after k is
\* attempted, and a playlist created earlier in the run is not deleted.
C16_FailureKeepsWrites ==
  /\ \A k \in 1..Len(p_calls) :
       p_calls[k].op \in {"get_library_playlists", "create_playlist", "add_playlist_items"}
  /\ PublishFailure =>
       /\ p_pc = "done"
       /\ p_events[Len(p_events)] = "done:False"
       /\ p_result.url = ""
       /\ \E e \in Errors : p_result.message = "Publishing failed: " \o e
       /\ p_calls[Len(p_calls)].op = "add_playlist_items" =>
            LET k == Len(AddCalls)
            IN /\ k = (p_i \div 50) + 1
               /\ AddCalls[k].batch = Slice(video_ids, 50 * (k - 1), 50 * k)
               /\ remote_items = SubSeq(video_ids, 1, 50 * (k - 1))
               /\ remote_items = Concat(SubSeq(AddCalls, 1, k - 1))
               /\ Creates # {} => remote_created = << p_dest_id >>

\* the second of three batches failed, into a playlist the run had created
C16_Witness ==
  /\ PublishFailure
  /\ Len(video_ids) = 101
  /\ Len(AddCalls) = 2
  /\ Len(remote_items) = 50
  /\ remote_created = << NewId >>

\* C17: a publish run ends with success only if every add-items call of every
\* batch completed, so that every identifier of video_ids was submitted to the
\* destination exactly once; a run in which an add-items call failed is never
\* reported as success.
C17_SuccessMeansAllAdded ==
  /\ PublishSuccess =>
       /\ p_pc = "done"
       /\ p_events[Len(p_events)] = "done:True"
       /\ remote_items = video_ids
       /\ Len(Concat(AddCalls)) = Len(video_ids)
       /\ \A k \in 1..Len(AddCalls) : AddCalls[k].dest = p_dest_id
  /\ Len(Concat(AddCalls)) # Len(remote_items) => PublishFailure

\* a run of two batches ended with success
C17_Witness ==
  /\ PublishSuccess
  /\ Len(video_ids) = 51
  /\ Len(AddCalls) = 2

\* C18: within one publish run create-playlist is called exactly when
\* destination resolution found no matching playlist, at most once, after the
\* listing of the library and before the first add-items call; when a matching
\* playlist exists no playlist is created.
C18_CreateWhenNoMatch ==
  /\ Cardinality(Creates) <= 1
  /\ \A c \in Creates :
       /\ \E l \in 1..(c - 1) : p_calls[l].op = "get_library_playlists"
       /\ \A a \in 1..Len(p_calls) : p_calls[a].op = "add_playlist_items" => c < a
  /\ (Listed /\ p_pc \in {"batch", "finish", "done"}) =>
       (Creates # {} <=> Matching(p_playlists, p_dest_title) = {})

\* C19: on success the reported URL is '<base>/playlist?list=<id>' with <id>
\* the one destination identifier (resolved or returned by create-playlist)
\* that every add-items call of the run targeted; on failure the URL is empty.
C19_Url ==
  /\ \A j, k \in 1..Len(AddCalls) : AddCalls[j].dest = AddCalls[k].dest
  /\ PublishSuccess =>
       /\ p_result.url = "https://music.youtube.com/playlist?list=" \o p_dest_id
       /\ \A k \in 1..Len(AddCalls) : AddCalls[k].dest = p_dest_id
       /\ p_dest_id =
            IF Creates # {} THEN remote_created[1]
            ELSE PublishResolveDest(p_playlists, p_dest_title)
       /\ Truthy(p_dest_id)
  /\ PublishFailure => p_result.url = ""

\* a run that created its destination reported the address of the new playlist
C19_Witness ==
  /\ PublishSuccess
  /\ p_result.url = "https://music.youtube.com/playlist?list=NEW"
  /\ Len(AddCalls) >= 2

\* the playlist a run must write to, by the listing the run itself fetched
FreshTarget ==
  LET hits == Matching(p_playlists, p_dest_title)
      found == IF hits = {} THEN None ELSE p_playlists[SetMin(hits)].playlistId
  IN IF Truthy(found) THEN found ELSE NewId

FetchCalls == Len(calls) - 1 - (IF dest_read = "none" THEN 0 ELSE 1)

\* C21: no retry: in a publish run the add-items call of each batch is issued
\* at most once and create-playlist at most once, in a preview run the fetch
\* of each source is issued at most once; a failed call is never re-issued.
C21_NoRetry ==
  /\ \A j, k \in 1..Len(AddCalls) : AddCalls[j].batch = AddCalls[k].batch => j = k
  /\ Len(AddCalls) <= Batches(Len(video_ids))
  /\ Cardinality(Creates) <= 1
  /\ Cardinality({ k \in 1..Len(p_calls) : p_calls[k].op = "get_library_playlists" }) <= 1
  /\ PublishFailure => Len(Concat(AddCalls)) - Len(remote_items) <= batch_size
  /\ calls # <<>> =>
       /\ FetchCalls = Len(fetched) + Cardinality(failed)
       /\ FetchCalls <= Cardinality(Phases)
       /\ \A j, k \in 1..Len(fetched) : fetched[j].phase = fetched[k].phase => j = k
       /\ \A k \in 1..Len(fetched) : fetched[k].phase \notin failed

\* the second of three batches failed and was the last call of the run
C21_Witness ==
  /\ PublishFailure
  /\ Len(video_ids) > 100
  /\ Len(AddCalls) = 2
  /\ p_calls[Len(p_calls)].op = "add_playlist_items"

Terminal == {"done:True", "done:False"}

\* C23: in each preview or publish run the done signal is emitted exactly
\* once and is the last signal of the run: no status or progress signal comes
\* after it.
C23_DoneOnceAndLast ==
  /\ \A k \in 1..Len(events) : events[k] \in Terminal => k = Len(events)
  /\ \A k \in 1..Len(p_events) : p_events[k] \in Terminal => k = Len(p_events)
  /\ pc = "done" <=> (events # <<>> /\ events[Len(events)] \in Terminal)
  /\ p_pc = "done" <=> (p_events # <<>> /\ p_events[Len(p_events)] \in Terminal)
  /\ pc = "done" => (result.present <=> events[Len(events)] = "done:True")
  /\ p_pc = "done" => (p_result.present /\ (p_result.ok <=> p_events[Len(p_events)] = "done:True"))

\* a preview run emitted four status signals and then its done signal
C23_Witness ==
  /\ pc = "done"
  /\ Len(events) = 5
  /\ events[5] = "done:True"
  /\ \A k \in 1..4 : events[k] = "status"

\* C26: every started preview run and every started publish run eventually
\* emits its done signal, provided every remote call returns or raises.
C26_Terminates ==
  /\ (pc # "idle") ~> (pc = "done" /\ events[Len(events)] \in Terminal)
  /\ (p_pc # "idle") ~> (p_pc = "done" /\ p_events[Len(p_events)] \in Terminal)

\* a preview run that read the destination, two sources and the liked songs
\* came to its done signal
C26_Witness ==
  /\ Success
  /\ dest_read = "ok"
  /\ Len(fetched) = 3
  /\ events[Len(events)] = "done:True"
\* ================================================= the liked-songs step
\* the positions of the calls that read the liked-songs collection as a
\* source (the calls after the listing and the read of the destination)
LikedCalls ==
  { k \in (Len(calls) - FetchCalls + 1)..Len(calls) : calls[k].op = "get_liked_songs" }

\* C27: the liked-songs collection is fetched only by the liked-songs step
\* that include_liked enables: no entry of the sources list is resolved to it,
\* so a run reads the liked songs at most once, never without include_liked,
\* and counts each liked track at most once.
C27_LikedOnlyByStep ==
  /\ Cardinality(LikedCalls) <= 1
  /\ ~include_liked => LikedCalls = {}
  /\ \A k \in 1..Len(fetched) :
       fetched[k].phase # Liked => sources[fetched[k].phase].playlistId # "LM"
\* ================================================ identifier extraction
\* C28: identifier extraction returns the primary identifier when it is
\* present and non-empty, otherwise the secondary identifier when that is
\* present and non-empty, otherwise no identifier; the result depends only
\* on those two fields, so records with the same non-empty primary
\* identifier get the same derived identifier.
C28_Extraction ==
  h_pc = "returned" =>
    /\ \A k \in 1..2 :
         LET t == h_tracks[k]
             v == h_ids[k]
         IN /\ Truthy(t.videoId) => v = t.videoId
            /\ ~Truthy(t.videoId) /\ Truthy(t.setVideoId) => v = t.setVideoId
            /\ ~Truthy(t.videoId) /\ ~Truthy(t.setVideoId) => ~Truthy(v)
    /\ (h_tracks[1].videoId = h_tracks[2].videoId
          /\ h_tracks[1].setVideoId = h_tracks[2].setVideoId) => h_ids[1] = h_ids[2]
    /\ (Truthy(h_tracks[1].videoId) /\ h_tracks[1].videoId = h_tracks[2].videoId)
          => h_ids[1] = h_ids[2]

\* two records with the same primary identifier, another secondary identifier
\* and another title got the same identifier
C28_Witness ==
  /\ h_pc = "returned"
  /\ h_tracks[1].videoId = "v1" /\ h_tracks[2].videoId = "v1"
  /\ h_tracks[1].setVideoId = "v2" /\ h_tracks[2].setVideoId = ""
  /\ h_tracks[1].title # h_tracks[2].title
  /\ h_ids = << "v1", "v1" >>
\* ================================================ overlapping preview runs
\* the tracks run r counted, as the stream of a run with one source
RunStream(r) == StreamOf(<< Fetched(RunLabel, 1, o_tracks[r]) >>)

\* C29: the destination-id and seen-id sets of a preview run are local to
\* it: when two preview runs overlap in time, the classification each of
\* them produces is the one its own inputs and remote responses give when
\* it runs alone.
C29_RunsIndependent ==
  \A r \in Runs :
    o_pc[r] = "done" =>
      /\ o_to_add[r] = RefToAdd(RunStream(r), o_dest[r])
      /\ o_skipped[r] = RefSkipped(RunStream(r), o_dest[r])

\* the second run started after the first, accepted the identifier the first
\* had already accepted, and ended while the first was still in its loop
C29_Witness ==
  /\ o_pc[1] = "track" /\ o_ti[1] = 2
  /\ o_seen[1] = {"v1"}
  /\ o_pc[2] = "done"
  /\ Len(o_to_add[2]) = 1 /\ o_to_add[2][1].video_id = "v1"
  /\ o_seen[2] = {"v1"}
\* ========================================= publish runs one after the other
\* the runs of the sequence that created a playlist
Creators == { k \in 1..Len(m_created) : m_created[k] # None }

\* C25: in a sequence of publish runs with the same destination title, where
\* the listing shows the playlists earlier runs created, create-playlist is
\* called in at most one of the runs, and every run after that one goes on
\* with the identifier it created.
C25_CreateOnce ==
  /\ Cardinality(Creators) <= 1
  /\ \A k \in Creators : \A j \in (k + 1)..Len(m_target) :
       m_target[j] # None => m_target[j] = m_created[k]

\* the same for a library in which every playlist carries an identifier
C25_WhenIdsListed ==
  (\A k \in 1..Len(m_library) : Truthy(m_library[k].playlistId)) => C25_CreateOnce
\* ========================================================= the main window
\* C22: at most one preview run and at most one publish run are in flight at
\* any time: the triggering button is disabled from the click until the
\* run's done signal, so no second run of the kind starts meanwhile.
C22_OneInFlight ==
  /\ Cardinality(w_previews) <= 1
  /\ Cardinality(w_publishes) <= 1
  /\ w_previews # {} => ~w_preview_btn
  /\ w_publishes # {} => ~w_publish_btn

\* C24: every publish run is started with the to_add identifiers of a plan
\* the user accepted in its dialog, never with those of a plan that was
\* rejected or not shown, also after several previews with mixed answers.
C24_OnlyAccepted ==
  \A k \in 1..Len(w_started) : w_answers[w_started[k].plan] = "accepted"

\* C30: the destination title a publish run is started with is the title
\* the plan it publishes was computed against in its preview run.
C30_TitleOfPlan ==
  \A k \in 1..Len(w_started) : w_started[k].title = w_started[k].plan_title
\* ==================================================== the preview run, more
\* the remote calls that only read
ReadOps == {"get_library_playlists", "get_watch_playlist", "get_liked_songs"}

\* C32: a preview run makes only read calls against the remote library
\* (listing, playlist tracks, liked songs), never create-playlist or
\* add-items, whether it succeeds or fails, so it leaves the remote library
\* as it was.
C32_ReadOnly ==
  /\ \A k \in 1..Len(calls) : calls[k].op \in ReadOps
  /\ remote_created = <<>>
  /\ remote_items = <<>>

\* a successful run listed the library, read the destination, two sources
\* and the liked songs, one of the fetches having failed
C32_Witness ==
  /\ Success
  /\ Len(calls) = 5
  /\ failed # {}
  /\ \A k \in 1..Len(calls) : calls[k].op \in ReadOps

\* C36: at every step of a preview run seen_ids is exactly the set of the
\* identifiers of the entries of to_add, and it shares no identifier with
\* the destination's existing-id set.
C36_SeenIsToAdd ==
  /\ seen_ids = { to_add[k].video_id : k \in 1..Len(to_add) }
  /\ seen_ids \cap dest_existing_ids = {}

\* a run accepted one identifier and skipped another that the destination has
C36_Witness ==
  /\ seen_ids = {"v1"}
  /\ dest_existing_ids = {"v2"}
  /\ Len(to_add) = 1
  /\ \E k \in 1..Len(skipped) : skipped[k].reason = AlreadyThere
\* ==================================================== duration formatting
\* the fields of a text, split at the colons
RECURSIVE Fields(_)
Fields(text) ==
  IF \A k \in 1..Len(text) : text[k] # ":" THEN << text >>
  ELSE LET c == CHOOSE k \in 1..Len(text) :
                  text[k] = ":" /\ \A j \in 1..(k - 1) : text[j] # ":"
       IN << SubSeq(text, 1, c - 1) >> \o Fields(SubSeq(text, c + 1, Len(text)))

DigitChars == { Digits(k)[1] : k \in 0..9 }

\* the number a sequence of decimal digits writes
RECURSIVE ValueOf(_)
ValueOf(ds) ==
  IF ds = <<>> THEN 0
  ELSE LET last == ds[Len(ds)]
       IN 10 * ValueOf(SubSeq(ds, 1, Len(ds) - 1))
            + (CHOOSE k \in 0..9 : Digits(k) = << last >>)

\* a field of decimal digits that writes n
Writes(field, n) ==
  /\ field # <<>>
  /\ \A k \in 1..Len(field) : field[k] \in DigitChars
  /\ ValueOf(field) = n

\* C37: for every non-negative number of seconds s, format_duration(s) shows
\* hours s div 3600, minutes (s mod 3600) div 60 and seconds s mod 60, the
\* minutes and seconds of an H:MM:SS text with two digits each; the hours
\* field is there exactly when s >= 3600, otherwise the text is M:SS with
\* M = s div 60.
C37_Format ==
  f_pc = "returned" =>
    LET s == f_seconds
        F == Fields(f_text)
    IN IF s >= 3600
       THEN /\ Len(F) = 3
            /\ Writes(F[1], s \div 3600) /\ F[1] = Digits(s \div 3600)
            /\ Writes(F[2], (s % 3600) \div 60) /\ Len(F[2]) = 2
            /\ Writes(F[3], s % 60) /\ Len(F[3]) = 2
       ELSE /\ Len(F) = 2
            /\ Writes(F[1], s \div 60) /\ F[1] = Digits(s \div 60)
            /\ Writes(F[2], s % 60) /\ Len(F[2]) = 2

\* 3725 seconds are shown as 1:02:05
C37_Witness ==
  /\ f_pc = "returned"
  /\ f_seconds = 3725
  /\ f_text = << "1", ":", "0", "2", ":", "0", "5" >>
\* =================================================== the main window, more
\* the preview runs whose done signal came with a plan
DeliveredOk ==
  Range(w_dialogs) \cup { r \in 1..Len(w_answers) : w_answers[r] # "none" }

\* the preview runs whose done signal came with a failure
DeliveredFail == (1..w_nprev) \ (DeliveredOk \cup { r.run : r \in w_previews })

\* C31: the stored plan is that of the most recently started preview run
\* that delivered one: the done signal of an earlier run that comes late
\* never overwrites the plan of a run started after it.
C31_LatestPlan ==
  w_preview_data.run # 0 => \A r \in DeliveredOk : r <= w_preview_data.run

\* C34: a preview run that ends in failure leaves the stored plan and the
\* enabled state of the publish button as they were; the stored plan is
\* replaced only when a preview run delivers a plan.
C34_FailureKeepsPlan ==
  [][ /\ ((\E r \in w_previews : w_previews' = w_previews \ {r}) /\ w_dialogs' = w_dialogs)
         => UNCHANGED << w_preview_data, w_publish_btn >>
      /\ w_preview_data' # w_preview_data
         => \E r \in w_previews :
              /\ w_previews' = w_previews \ {r}
              /\ w_preview_data'.run = r.run
              /\ w_dialogs' = Append(w_dialogs, r.run) ]_vars

\* the second preview run failed after the plan of the first was accepted:
\* that plan is still stored and the publish button still enabled
C34_Witness ==
  /\ w_preview_data.run = 1
  /\ w_answers[1] = "accepted"
  /\ 2 \in DeliveredFail
  /\ w_publish_btn
\* ============================================ the selection of the sources
\* C35: the sources handed to a preview run never hold the destination
\* playlist: every checked playlist whose title matches the destination
\* title by the preview's rule (trimmed, case ignored) is left out.
C35_DestNotASource ==
  s_pc = "returned" =>
    \A k \in 1..Len(s_selected) : ~TitleMatches(s_selected[k], s_dest)

\* the same for lists whose titles have no blank at either end
C35_WhenTitlesTrimmed ==
  (\A k \in 1..Len(s_items) : Strip(s_items[k].title) = s_items[k].title)
    => C35_DestNotASource
\* ================================= the window and the publish run it starts
\* the add-items calls of the run that name playlist id
AddsTo(id) == { k \in 1..Len(p_calls) : p_calls[k].op = "add_playlist_items" /\ p_calls[k].dest = id }

====
